---- MODULE Spec2Model ----
(***************************************************************************)
(* Model of optimo_schedule.py: the seven-day re-sync job run_each_day,    *)
(* the transformation set_up_data of a fetched schedule into route and     *)
(* route_stop rows, and the statements the job sends to the store.         *)
(*                                                                         *)
(* Conventions.                                                            *)
(*  - A calendar date is the number of days since 2024-01-01.              *)
(*  - A time of day ("HH:MM", parsed by strptime) is minutes since 00:00.  *)
(*  - A timezone-aware datetime is the instant it denotes, in minutes      *)
(*    since 2024-01-01 00:00 UTC: aware datetimes compare by instant in    *)
(*    Python and timestamptz columns store the instant.                    *)
(*  - A JSON object is a record whose DOMAIN is its set of keys, so a      *)
(*    missing key is a field that is not in the DOMAIN.                    *)
(*  - A Python value whose type may vary is tagged: PyInt(n), PyStr(s).    *)
(***************************************************************************)
EXTENDS Integers, Sequences, FiniteSets, TLC

VARIABLES
    pc,                             \* position of the running code
    start,                          \* the argument of run_each_day
    day,                            \* run_each_day: the day cursor
    x,                              \* run_each_day: the loop index of range(7)
    schedule,                       \* fetch_routes: the decoded API response
    all_routes,                     \* run_each_day: rows fetched for the day
    all_stops,
    successfully_fetched_schedule,
    all_html_messages,              \* run_each_day: the status log
    route,                          \* the store's table route
    route_stop,                     \* the store's table route_stop
    store0,                         \* the store's tables before the first statement
    hist                            \* the operations attempted so far, in order

vars == <<pc, start, day, x, schedule, all_routes, all_stops,
          successfully_fetched_schedule, all_html_messages, route, route_stop,
          store0, hist>>

----------------------------------------------------------------------------
(* Bounds of the model.                                                    *)

\* longest list of routes in a schedule given to set_up_data
MaxRoutes == 2
\* most stops in a schedule given to set_up_data, over all its routes
MaxStops == 3
\* most calls made to the repository functions in SpecRepository
MaxOps == 5

----------------------------------------------------------------------------
(* Python values and the calendar.                                         *)

PyInt(n) == [int |-> n]
PyStr(s) == [str |-> s]

MinutesPerDay == 1440
\* US/Pacific: utcoffset of PST and PDT, in minutes west of UTC
PST == 480
PDT == 420
\* US/Pacific, 2024: daylight saving starts 2024-03-10 02:00 and ends
\* 2024-11-03 02:00
SpringForwardDay == 69
FallBackDay == 307
TransitionTime == 120

NextDay_stay(d) == d

\* timedelta(days=1) added to a date
NextDay(d) == d + 1

\* pytz localize(naive, is_dst=True) for US/Pacific: whether the wall clock
\* time t of date d is given the daylight-saving offset.  The hour skipped on
\* SpringForwardDay (02:00-02:59) and the hour repeated on FallBackDay
\* (01:00-01:59) are resolved by is_dst=True to daylight-saving time.
LocalizeIsDst(d, t) ==
    \/ d > SpringForwardDay /\ d < FallBackDay
    \/ d = SpringForwardDay /\ t >= TransitionTime
    \/ d = FallBackDay /\ t < TransitionTime

\* set_to_pacific("{} {}".format(day, time)): the instant of the wall clock
\* time t of date d in US/Pacific
set_to_pacific(d, t) ==
    d * MinutesPerDay + t + (IF LocalizeIsDst(d, t) THEN PDT ELSE PST)

----------------------------------------------------------------------------
(* set_up_data                                                             *)

RouteKeys == {"stops", "duration", "driverName"}
StopKeys == {"scheduledAt", "stopNumber", "locationNo"}

FirstStopOfRoute_byNumber(r) ==
    LET firsts == {i \in DOMAIN r.stops : r.stops[i].stopNumber = 1}
    IN  IF firsts = {} THEN r.stops[1]
        ELSE r.stops[CHOOSE i \in firsts : \A j \in firsts : i <= j]

\* x["stops"][0]
FirstStopOfRoute(r) == r.stops[1]

LocationNumber_passthrough(y) == y.locationNo

\* lines 105-108
LocationNumber(y) ==
    IF y.locationNo = PyStr("") THEN PyInt(-1) ELSE y.locationNo

\* lines 83-90: the route row (of the copied columns, duration stands for
\* vehicle_label, vehicle_registration, driver_serial and distance)
NewRowRoutes(r, first_date_time) ==
    [route_date_time |-> first_date_time,
     duration        |-> r.duration,
     driver_name     |-> r.driverName]

\* lines 93-108: the stop row (location_name, longitude, address, latitude
\* and order_number are copied like stop_number)
NewRowStops(r, y, d, first_date_time) ==
    [route_date_time |-> first_date_time,
     driver_name     |-> r.driverName,
     schedule_at     |-> set_to_pacific(d, y.scheduledAt),
     stop_number     |-> y.stopNumber,
     location_number |-> LocationNumber(y)]

RECURSIVE StopsLoop_dropRepeated(_, _, _, _)
StopsLoop_dropRepeated(r, ys, d, first_date_time) ==
    IF ys = <<>> THEN [exc |-> "none", rows |-> <<>>]
    ELSE IF ~ (StopKeys \subseteq DOMAIN Head(ys))
    THEN [exc |-> "KeyError", rows |-> <<>>]
    ELSE LET rest == StopsLoop_dropRepeated(r, Tail(ys), d, first_date_time)
             row  == NewRowStops(r, Head(ys), d, first_date_time)
         IN  IF rest.exc # "none" THEN rest
             ELSE IF \E i \in DOMAIN rest.rows : rest.rows[i] = row THEN rest
             ELSE [exc |-> "none", rows |-> <<row>> \o rest.rows]

\* lines 92-109: the loop over the stops ys of route r.  A stop that lacks a
\* key raises KeyError.
RECURSIVE StopsLoop(_, _, _, _)
StopsLoop(r, ys, d, first_date_time) ==
    IF ys = <<>> THEN [exc |-> "none", rows |-> <<>>]
    ELSE IF ~ (StopKeys \subseteq DOMAIN Head(ys))
    THEN [exc |-> "KeyError", rows |-> <<>>]
    ELSE LET rest == StopsLoop(r, Tail(ys), d, first_date_time)
         IN  IF rest.exc # "none" THEN rest
             ELSE [exc |-> "none",
                   rows |-> <<NewRowStops(r, Head(ys), d, first_date_time)>>
                            \o rest.rows]

\* lines 80-109: the loop over the routes rs.  x["stops"][0] raises
\* IndexError on an empty list of stops, a missing key raises KeyError.
RECURSIVE RoutesLoop(_, _)
RoutesLoop(rs, d) ==
    IF rs = <<>> THEN [exc |-> "none", routes |-> <<>>, stops |-> <<>>]
    ELSE LET r == Head(rs) IN
         IF "stops" \notin DOMAIN r
         THEN [exc |-> "KeyError", routes |-> <<>>, stops |-> <<>>]
         ELSE IF r.stops = <<>>
         THEN [exc |-> "IndexError", routes |-> <<>>, stops |-> <<>>]
         ELSE IF "scheduledAt" \notin DOMAIN FirstStopOfRoute(r)
                 \/ ~ (RouteKeys \subseteq DOMAIN r)
         THEN [exc |-> "KeyError", routes |-> <<>>, stops |-> <<>>]
         ELSE LET first_date_time ==
                      set_to_pacific(d, FirstStopOfRoute(r).scheduledAt)
                  own == StopsLoop(r, r.stops, d, first_date_time)
              IN  IF own.exc # "none"
                  THEN [exc |-> own.exc, routes |-> <<>>, stops |-> <<>>]
                  ELSE LET rest == RoutesLoop(Tail(rs), d) IN
                       IF rest.exc # "none" THEN rest
                       ELSE [exc    |-> "none",
                             routes |-> <<NewRowRoutes(r, first_date_time)>>
                                        \o rest.routes,
                             stops  |-> own.rows \o rest.stops]

\* set_up_data(schedule, day): [exc, routes, stops]; exc is "none" when the
\* function returns (all_rows_routes, all_rows_stops)
set_up_data(sched, d) ==
    IF "routes" \notin DOMAIN sched
    THEN [exc |-> "KeyError", routes |-> <<>>, stops |-> <<>>]
    ELSE RoutesLoop(sched.routes, d)

----------------------------------------------------------------------------
(* The store: tables route and route_stop, and the statements sent to it.  *)
(* Each statement is executed on its own (engine.execute autocommits), so  *)
(* a statement takes effect entirely or, when it raises, not at all.       *)

SpringForwardInstant == SpringForwardDay * MinutesPerDay + TransitionTime + PST
FallBackInstant == FallBackDay * MinutesPerDay + TransitionTime + PDT

\* route_date_time::date, the calendar date of an instant in the session's
\* time zone, taken to be US/Pacific like every time the program writes
SessionDate(ts) ==
    IF ts >= SpringForwardInstant /\ ts < FallBackInstant
    THEN (ts - PDT) \div MinutesPerDay
    ELSE (ts - PST) \div MinutesPerDay

\* The uniqueness constraints of the two tables (section 3 and 4.3 of the
\* specification: route_date_time identifies a route; a stop is identified
\* within its route by its stop number).
RouteKey(r) == <<r.route_date_time>>
StopKey(s) == <<s.route_date_time, s.stop_number>>

Range(seq) == {seq[i] : i \in DOMAIN seq}

\* whether the bulk insert of rows into table route violates RouteKey
RouteUniqueViolation(tbl, rows) ==
    \/ \E i, j \in DOMAIN rows : i # j /\ RouteKey(rows[i]) = RouteKey(rows[j])
    \/ \E i \in DOMAIN rows : \E r \in tbl : RouteKey(rows[i]) = RouteKey(r)

\* whether the bulk insert of rows into table route_stop violates StopKey
StopUniqueViolation(tbl, rows) ==
    \/ \E i, j \in DOMAIN rows : i # j /\ StopKey(rows[i]) = StopKey(rows[j])
    \/ \E i \in DOMAIN rows : \E r \in tbl : StopKey(rows[i]) = StopKey(r)

\* the comparison <= in place of =
DeleteStops_skipped(tbl, datee) == tbl

DeleteStops_through(tbl, datee) ==
    {s \in tbl : SessionDate(s.route_date_time) > datee}

\* lines 167-171: DELETE FROM route_stop WHERE route_date_time::date = datee
DeleteStops(tbl, datee) == {s \in tbl : SessionDate(s.route_date_time) # datee}

DeleteRoutes_allDays(tbl, datee) == {}

\* the comparison without the cast to date: the rows stamped midnight
DeleteRoutes_noCast(tbl, datee) ==
    {r \in tbl : r.route_date_time # set_to_pacific(datee, 0)}

\* lines 173-177: DELETE FROM route WHERE route_date_time::date = datee
DeleteRoutes(tbl, datee) == {r \in tbl : SessionDate(r.route_date_time) # datee}

\* delete_routes_and_stops(datee) on the store st = [route, route_stop]
delete_routes_and_stops(st, datee) ==
    [route      |-> DeleteRoutes(st.route, datee),
     route_stop |-> DeleteStops(st.route_stop, datee)]

insert_routes_ignoreDuplicates(tbl, all_rows_routes) ==
    [exc   |-> "none",
     table |-> tbl \cup {r \in Range(all_rows_routes) :
                            \A o \in tbl : o.route_date_time # r.route_date_time}]

\* insert_routes(all_rows_routes) on table tbl: [exc, table]
insert_routes(tbl, all_rows_routes) ==
    IF Len(all_rows_routes) > 0
    THEN IF RouteUniqueViolation(tbl, all_rows_routes)
         THEN [exc |-> "IntegrityError", table |-> tbl]
         ELSE [exc |-> "none", table |-> tbl \cup Range(all_rows_routes)]
    ELSE [exc |-> "none", table |-> tbl]

\* the rows stored one at a time, up to the refusal
insert_stops_rowByRow(tbl, all_rows_stops) ==
    [exc   |-> IF StopUniqueViolation(tbl, all_rows_stops)
               THEN "IntegrityError" ELSE "none",
     table |-> tbl \cup {s \in Range(all_rows_stops) :
                            \A o \in tbl : StopKey(o) # StopKey(s)}]

\* insert_stops(all_rows_stops) on table tbl: [exc, table]
insert_stops(tbl, all_rows_stops) ==
    IF Len(all_rows_stops) > 0
    THEN IF StopUniqueViolation(tbl, all_rows_stops)
         THEN [exc |-> "IntegrityError", table |-> tbl]
         ELSE [exc |-> "none", table |-> tbl \cup Range(all_rows_stops)]
    ELSE [exc |-> "none", table |-> tbl]

----------------------------------------------------------------------------
(* fetch_routes                                                            *)

GetMessage_dropped(sched) == [none |-> TRUE]

\* schedule.get('message')
GetMessage(sched) ==
    IF "message" \in DOMAIN sched THEN PyStr(sched.message) ELSE [none |-> TRUE]

\* lines 53-59: [exc, msg, routes, stops] for the decoded response sched
fetch_routes(sched, d) ==
    LET got == set_up_data(sched, d) IN
    IF got.exc = "KeyError"
    THEN [exc    |-> "OptimorouteGetRoutesException",
          msg    |-> GetMessage(sched),
          routes |-> <<>>, stops |-> <<>>]
    ELSE [exc    |-> got.exc,
          msg    |-> [none |-> TRUE],
          routes |-> got.routes, stops |-> got.stops]

----------------------------------------------------------------------------
(* set_up_data as a function of its arguments: SpecTransform draws a       *)
(* schedule and a day and applies it.                                      *)

Drivers == {"Mia Green", "Bo Lee"}

\* the stops a drawn schedule is made of; the last one lacks locationNo
StopValues ==
    { [scheduledAt |-> 90,  stopNumber |-> 2, locationNo |-> PyStr("02")],
      [scheduledAt |-> 150, stopNumber |-> 1, locationNo |-> PyStr("")],
      [scheduledAt |-> 995, stopNumber |-> 1] }

\* the days set_up_data is applied to: an ordinary winter day, the day
\* daylight saving starts and the day it ends
TransformDays == {SpringForwardDay - 1, SpringForwardDay, FallBackDay}

\* the lists of exactly n stops
RECURSIVE StopLists(_)
StopLists(n) ==
    IF n = 0 THEN {<<>>}
    ELSE {<<y>> \o ys : y \in StopValues, ys \in StopLists(n - 1)}

\* the lists of at most r routes that hold at most k stops together
RECURSIVE RouteLists(_, _)
RouteLists(r, k) ==
    {<<>>} \cup
    (IF r = 0 THEN {}
     ELSE UNION { { <<[duration |-> 1302, driverName |-> d, stops |-> ys]>> \o rs :
                      d \in Drivers, ys \in StopLists(n),
                      rs \in RouteLists(r - 1, k - n) } : n \in 0..k })

Schedules == {[routes |-> rs] : rs \in RouteLists(MaxRoutes, MaxStops)}

NoSchedule == [unset |-> TRUE]
NoStore == [route |-> {}, route_stop |-> {}]

InitTransform ==
    /\ pc = "set_up_data"
    /\ day \in TransformDays
    /\ schedule \in Schedules
    /\ start = day
    /\ x = 0
    /\ all_routes = <<>>
    /\ all_stops = <<>>
    /\ successfully_fetched_schedule = 0
    /\ all_html_messages = <<>>
    /\ route = {}
    /\ route_stop = {}
    /\ store0 = NoStore
    /\ hist = <<>>

\* one call of set_up_data(schedule, day)
Transform ==
    /\ pc = "set_up_data"
    /\ LET got == set_up_data(schedule, day) IN
       /\ pc' = IF got.exc = "none" THEN "returned" ELSE got.exc
       /\ all_routes' = got.routes
       /\ all_stops' = got.stops
    /\ UNCHANGED <<start, day, x, schedule, successfully_fetched_schedule,
                   all_html_messages, route, route_stop, store0, hist>>

NextTransform == Transform

SpecTransform == InitTransform /\ [][NextTransform]_vars

----------------------------------------------------------------------------
(* Properties of set_up_data (stated for SpecTransform).                   *)

\* the positions <<i, j>> of the stops of the routes rs, in source order:
\* every stop of route i before any stop of route i + 1
RECURSIVE StopPositions(_, _)
StopPositions(rs, i) ==
    IF i > Len(rs) THEN <<>>
    ELSE [j \in 1..Len(rs[i].stops) |-> <<i, j>>] \o StopPositions(rs, i + 1)

SourceRoute(k) == schedule.routes[StopPositions(schedule.routes, 1)[k][1]]
SourceStop(k) ==
    LET pos == StopPositions(schedule.routes, 1)[k]
    IN  schedule.routes[pos[1]].stops[pos[2]]

\* C4: when set_up_data returns, it returns one route row per route of the
\* schedule, in source order, and one stop row per stop of the schedule, in
\* source order (route by route, and within a route as listed).
C4_OneRowPerRouteAndStop ==
    pc = "returned" =>
        /\ Len(all_routes) = Len(schedule.routes)
        /\ \A i \in DOMAIN all_routes :
               /\ all_routes[i].driver_name = schedule.routes[i].driverName
               /\ all_routes[i].duration = schedule.routes[i].duration
        /\ Len(all_stops) = Len(StopPositions(schedule.routes, 1))
        /\ \A k \in DOMAIN all_stops :
               /\ all_stops[k].stop_number = SourceStop(k).stopNumber
               /\ all_stops[k].driver_name = SourceRoute(k).driverName
               /\ all_stops[k].schedule_at =
                      set_to_pacific(day, SourceStop(k).scheduledAt)

C4_Witness ==
    /\ pc = "returned"
    /\ Len(schedule.routes) = 2
    /\ Len(schedule.routes[1].stops) = 2
    /\ schedule.routes[1].stops[1] = schedule.routes[1].stops[2]
    /\ schedule.routes[1].driverName # schedule.routes[2].driverName
    /\ schedule.routes[2].stops[1] # schedule.routes[1].stops[1]
    /\ Len(all_stops) = 3

\* C5: the route_date_time of a route row is the localization of the day and
\* the scheduledAt of the route's first stop in source order, whatever the
\* stop numbers and the other stops' times; the schedule_at of a stop row is
\* the localization of the day and the stop's own scheduledAt.
C5_RouteTimeIsFirstStopTime ==
    pc = "returned" =>
        /\ \A i \in DOMAIN all_routes :
               all_routes[i].route_date_time =
                   set_to_pacific(day, schedule.routes[i].stops[1].scheduledAt)
        /\ \A k \in DOMAIN all_stops :
               all_stops[k].schedule_at =
                   set_to_pacific(day, SourceStop(k).scheduledAt)

C5_Witness ==
    /\ pc = "returned"
    /\ Len(all_routes) = 1
    /\ Len(schedule.routes[1].stops) = 2
    /\ schedule.routes[1].stops[1].stopNumber = 2
    /\ schedule.routes[1].stops[2].stopNumber = 1
    /\ all_routes[1].route_date_time # all_stops[2].schedule_at
    /\ all_routes[1].route_date_time = all_stops[1].schedule_at

\* C6 as claimed: every stop row carries the route_date_time and driver_name
\* of the route it was nested under, and exactly one route row of the output
\* has that route_date_time.
C6_StopBelongsToExactlyOneRoute ==
    pc = "returned" =>
        \A k \in DOMAIN all_stops :
            LET i == StopPositions(schedule.routes, 1)[k][1] IN
            /\ all_stops[k].route_date_time = all_routes[i].route_date_time
            /\ all_stops[k].driver_name = all_routes[i].driver_name
            /\ Cardinality({n \in DOMAIN all_routes :
                   all_routes[n].route_date_time =
                       all_stops[k].route_date_time}) = 1

----------------------------------------------------------------------------
(* run_each_day: the job, one action per statement sent to the store or    *)
(* to the API.                                                             *)

\* range(7)
DaysToRun == 7

\* the date the job is started on: its seven days include the day on which
\* daylight saving starts
StartDays == {SpringForwardDay - 3}

Stop(t, n, loc) == [scheduledAt |-> t, stopNumber |-> n, locationNo |-> PyStr(loc)]
Route(d, ys) == [duration |-> 1302, driverName |-> d, stops |-> ys]

\* what the API answers: an error payload; no routes; two routes that start
\* at 01:30 and at 02:30, with stops at 01:30, 16:35 and 02:30; a route that
\* lists the same stop number twice; a route without stops
ErrorPayload == [message |-> "Invalid API key"]
ApiResponses ==
    { ErrorPayload,
      [routes |-> <<>>],
      [routes |-> <<Route("Mia Green", <<Stop(90, 1, "02"), Stop(995, 2, "")>>),
                    Route("Bo Lee", <<Stop(150, 3, "")>>)>>],
      [routes |-> <<Route("Bo Lee", <<Stop(762, 1, "01"), Stop(995, 1, "")>>)>>],
      [routes |-> <<Route("Bo Lee", <<>>)>>] }

\* rows left in the store by an earlier run: a route with one stop at 08:00
\* on each of the days ds
OldRoutes(ds) ==
    {[route_date_time |-> set_to_pacific(d, 480), duration |-> 900,
      driver_name |-> "Al Old"] : d \in ds}
OldStops(ds) ==
    {[route_date_time |-> set_to_pacific(d, 480), driver_name |-> "Al Old",
      schedule_at |-> set_to_pacific(d, 480), stop_number |-> 1,
      location_number |-> PyInt(-1)] : d \in ds}

\* the store before the job: it holds rows of the day before the window, of
\* three of the seven days of the window and of the day after the window
InitStores(d) ==
    { [route      |-> OldRoutes({d - 1, d, d + 3, d + 6, d + 7}),
       route_stop |-> OldStops({d - 1, d, d + 3, d + 6, d + 7})] }

Msg(kind, d) == [kind |-> kind, day |-> d]
Br_notAppended == [kind |-> ""]

Br == [kind |-> "<br>"]
Op(op, d, exc) == [op |-> op, day |-> d, exc |-> exc]

PcAfterFetch_catchAll(exc) ==
    IF exc = "none" THEN "insert_routes" ELSE "advance"

PcAfterFetch_stopsFirst(exc) ==
    IF exc = "none" THEN "insert_stops"
    ELSE IF exc = "OptimorouteGetRoutesException" THEN "advance"
    ELSE "crashed"

PcAfterFetch_fallThrough(exc) ==
    IF exc \in {"none", "OptimorouteGetRoutesException"} THEN "insert_routes"
    ELSE "crashed"

\* lines 196-211: where run_each_day continues after fetch_routes: with the
\* inserts when it returned, with the end of the iteration when it raised
\* OptimorouteGetRoutesException (successfully_fetched_schedule stays 0);
\* any other exception leaves run_each_day
PcAfterFetch(exc) ==
    IF exc = "none" THEN "insert_routes"
    ELSE IF exc = "OptimorouteGetRoutesException" THEN "advance"
    ELSE "crashed"

PcAfterInsertRoutes_oneTry(exc) ==
    IF exc = "none" THEN "insert_stops" ELSE "advance"

\* lines 212-225: insert_stops follows insert_routes, whether insert_routes
\* returned or raised IntegrityError
PcAfterInsertRoutes(exc) == "insert_stops"

Init ==
    /\ pc = "delete_stops"
    /\ start \in StartDays
    /\ day = start
    /\ x = 0
    /\ schedule = NoSchedule
    /\ all_routes = <<>>
    /\ all_stops = <<>>
    /\ successfully_fetched_schedule = 0
    /\ all_html_messages = <<>>
    /\ store0 \in InitStores(start)
    /\ route = store0.route
    /\ route_stop = store0.route_stop
    /\ hist = <<>>

\* a statement or request fails for a reason the job does not handle (the
\* store or the API cannot be reached): the exception leaves run_each_day
Crash_swallowed(op, exc) ==
    /\ pc' = "advance"
    /\ hist' = Append(hist, Op(op, day, exc))
    /\ UNCHANGED <<start, day, x, schedule, all_routes, all_stops,
                   successfully_fetched_schedule, all_html_messages, route,
                   route_stop, store0>>

Crash(op, exc) ==
    /\ pc' = "crashed"
    /\ hist' = Append(hist, Op(op, day, exc))
    /\ UNCHANGED <<start, day, x, schedule, all_routes, all_stops,
                   successfully_fetched_schedule, all_html_messages, route,
                   route_stop, store0>>

\* lines 167-171
DeleteStopsStep ==
    /\ pc = "delete_stops"
    /\ \/ /\ route_stop' = DeleteStops(route_stop, day)
          /\ pc' = "delete_routes"
          /\ hist' = Append(hist, Op("delete_stops", day, "none"))
          /\ UNCHANGED <<start, day, x, schedule, all_routes, all_stops,
                         successfully_fetched_schedule, all_html_messages,
                         route, store0>>
       \/ Crash("delete_stops", "OperationalError")

\* lines 173-177 and 189-194
DeleteRoutesStep ==
    /\ pc = "delete_routes"
    /\ \/ /\ route' = DeleteRoutes(route, day)
          /\ all_html_messages' = Append(all_html_messages, Msg("deleted", day))
          /\ all_routes' = <<>>
          /\ all_stops' = <<>>
          /\ successfully_fetched_schedule' = 0
          /\ pc' = "fetch"
          /\ hist' = Append(hist, Op("delete_routes", day, "none"))
          /\ UNCHANGED <<start, day, x, schedule, route_stop, store0>>
       \/ Crash("delete_routes", "OperationalError")

\* lines 196-211: fetch_routes(day) answers resp
FetchStep ==
    /\ pc = "fetch"
    /\ \/ \E resp \in ApiResponses :
            LET got == fetch_routes(resp, day) IN
            /\ schedule' = resp
            /\ hist' = Append(hist, Op("fetch_routes", day, got.exc))
            /\ pc' = PcAfterFetch(got.exc)
            /\ \/ /\ got.exc = "none"
                  /\ all_routes' = got.routes
                  /\ all_stops' = got.stops
                  /\ all_html_messages' =
                         Append(all_html_messages, Msg("fetched", day))
                  /\ successfully_fetched_schedule' = 1
               \/ /\ got.exc = "OptimorouteGetRoutesException"
                  /\ all_html_messages' =
                         Append(all_html_messages, Msg("fetch failed", day))
                  /\ UNCHANGED <<all_routes, all_stops,
                                 successfully_fetched_schedule>>
               \/ /\ got.exc \notin {"none", "OptimorouteGetRoutesException"}
                  /\ UNCHANGED <<all_routes, all_stops,
                                 successfully_fetched_schedule,
                                 all_html_messages>>
            /\ UNCHANGED <<start, day, x, route, route_stop, store0>>
       \/ Crash("fetch_routes", "ConnectionError")

\* lines 212-223
InsertRoutesStep ==
    /\ pc = "insert_routes"
    /\ \/ LET res == insert_routes(route, all_routes) IN
          /\ route' = res.table
          /\ all_html_messages' =
                 Append(all_html_messages,
                        IF res.exc = "none" THEN Msg("routes inserted", day)
                        ELSE Msg("routes already imported", day))
          /\ hist' = Append(hist, Op("insert_routes", day, res.exc))
          /\ pc' = PcAfterInsertRoutes(res.exc)
          /\ UNCHANGED <<start, day, x, schedule, all_routes, all_stops,
                         successfully_fetched_schedule, route_stop, store0>>
       \/ /\ Len(all_routes) > 0
          /\ Crash("insert_routes", "OperationalError")

\* lines 225-237
InsertStopsStep ==
    /\ pc = "insert_stops"
    /\ \/ LET res == insert_stops(route_stop, all_stops) IN
          /\ route_stop' = res.table
          /\ all_html_messages' =
                 Append(all_html_messages,
                        IF res.exc = "none" THEN Msg("stops inserted", day)
                        ELSE Msg("stops already imported", day))
          /\ hist' = Append(hist, Op("insert_stops", day, res.exc))
          /\ pc' = "advance"
          /\ UNCHANGED <<start, day, x, schedule, all_routes, all_stops,
                         successfully_fetched_schedule, route, store0>>
       \/ /\ Len(all_stops) > 0
          /\ Crash("insert_stops", "OperationalError")

\* lines 239-242: the separator, the next day, and the return after the
\* seventh iteration
Advance ==
    /\ pc = "advance"
    /\ all_html_messages' = Append(all_html_messages, Br)
    /\ day' = NextDay(day)
    /\ x' = x + 1
    /\ pc' = IF x + 1 < DaysToRun THEN "delete_stops" ELSE "returned"
    /\ UNCHANGED <<start, schedule, all_routes, all_stops,
                   successfully_fetched_schedule, route, route_stop, store0,
                   hist>>

Next ==
    \/ DeleteStopsStep
    \/ DeleteRoutesStep
    \/ FetchStep
    \/ InsertRoutesStep
    \/ InsertStopsStep
    \/ Advance

Spec == Init /\ [][Next]_vars

----------------------------------------------------------------------------
(* Properties of run_each_day (stated for Spec).                           *)

OpsOf(name) == SelectSeq(hist, LAMBDA o : o.op = name)

\* the days whose iteration has begun, in order: delete_routes_and_stops is
\* the first call of an iteration
DaysProcessed == [i \in DOMAIN OpsOf("delete_stops") |-> OpsOf("delete_stops")[i].day]

\* C1: the day cursor is the start date plus the number of iterations done;
\* the days processed are start, start+1, ... in order, one per iteration;
\* and a run that returns has done exactly 7 iterations, on the 7 days
\* start .. start+6.
C1_SevenConsecutiveDays ==
    /\ day = start + x
    /\ x <= 7
    /\ \A i \in DOMAIN DaysProcessed : DaysProcessed[i] = start + (i - 1)
    /\ Len(DaysProcessed) = IF pc = "delete_stops" THEN x
                            ELSE IF pc = "returned" THEN x ELSE x + 1
    /\ pc = "returned" =>
           /\ x = 7
           /\ DaysProcessed = [i \in 1..7 |-> start + (i - 1)]
           /\ Len(OpsOf("fetch_routes")) = 7

C1_Witness ==
    /\ pc = "returned"
    /\ Len(DaysProcessed) = 7
    /\ DaysProcessed[7] = start + 6
    /\ day = start + 7

FetchFailed(o) == o.op = "fetch_routes" /\ o.exc = "OptimorouteGetRoutesException"

\* C2: when the fetch of a day raises OptimorouteGetRoutesException, the
\* failure message of that day is in the log, no insert is attempted for that
\* day, and the job goes on: the next operation is the deletion for the next
\* day, and a run that returns has fetched every day of the window.
C2_FetchFailureSkipsInsertsOnly ==
    \A i \in DOMAIN hist :
        FetchFailed(hist[i]) =>
            /\ \E m \in DOMAIN all_html_messages :
                   all_html_messages[m] = Msg("fetch failed", hist[i].day)
            /\ \A j \in DOMAIN hist :
                   hist[j].day = hist[i].day
                       => hist[j].op \notin {"insert_routes", "insert_stops"}
            /\ i = Len(hist) => pc \in {"advance", "delete_stops", "returned"}
            /\ i < Len(hist) =>
                   /\ hist[i + 1].op = "delete_stops"
                   /\ hist[i + 1].day = hist[i].day + 1
            /\ pc = "returned" =>
                   \A d \in start .. start + 6 :
                       \E j \in DOMAIN hist :
                           hist[j].op = "fetch_routes" /\ hist[j].day = d

FetchFailedDays == {hist[i].day : i \in {j \in DOMAIN hist : FetchFailed(hist[j])}}

C2_Witness ==
    /\ pc = "returned"
    /\ FetchFailedDays = {start, start + 1, start + 4}
    /\ \E j \in DOMAIN hist :
           hist[j] = Op("insert_stops", start + 5, "none")
    /\ route_stop # DeleteStops(route_stop, start + 5)

RoutesOfDay(tbl, d) == {r \in tbl : SessionDate(r.route_date_time) = d}

\* C3: at the end of an iteration whose fetch and both inserts succeeded, the
\* rows of the day in route and in route_stop are exactly the rows made from
\* the day's response; no row the store held for the day before is left
\* (unless it is one of the fresh rows).
C3_DayReplacedByFreshRows ==
    (/\ pc = "advance"
     /\ successfully_fetched_schedule = 1
     /\ hist[Len(hist) - 1] = Op("insert_routes", day, "none")
     /\ hist[Len(hist)] = Op("insert_stops", day, "none"))
    => /\ RoutesOfDay(route, day) = Range(all_routes)
       /\ RoutesOfDay(route_stop, day) = Range(all_stops)
       /\ \A r \in RoutesOfDay(store0.route, day) :
              r \in route => r \in Range(all_routes)
       /\ \A r \in RoutesOfDay(store0.route_stop, day) :
              r \in route_stop => r \in Range(all_stops)

C3_Witness ==
    /\ pc = "advance"
    /\ successfully_fetched_schedule = 1
    /\ hist[Len(hist) - 1] = Op("insert_routes", day, "none")
    /\ hist[Len(hist)] = Op("insert_stops", day, "none")
    /\ RoutesOfDay(store0.route, day) # {}
    /\ RoutesOfDay(store0.route_stop, day) # {}
    /\ Len(all_routes) = 2
    /\ Len(all_stops) = 3

Attempted(o, name) == o.op = name /\ o.exc \in {"none", "IntegrityError"}

\* C8: after a fetch that succeeded insert_routes is attempted; after
\* insert_routes, whether it returned or raised IntegrityError, insert_stops
\* is attempted for the same day; an IntegrityError of either insert leaves
\* the "already imported" message of that day in the log; and after
\* insert_stops, whether it returned or raised IntegrityError, the job goes
\* on with the next day.
C8_DuplicateBlocksNothing ==
    \A i \in DOMAIN hist :
        /\ (hist[i].op = "fetch_routes" /\ hist[i].exc = "none") =>
               /\ i = Len(hist) => pc = "insert_routes"
               /\ i < Len(hist) => /\ hist[i + 1].op = "insert_routes"
                                   /\ hist[i + 1].day = hist[i].day
        /\ Attempted(hist[i], "insert_routes") =>
               /\ i = Len(hist) => pc = "insert_stops"
               /\ i < Len(hist) => /\ hist[i + 1].op = "insert_stops"
                                   /\ hist[i + 1].day = hist[i].day
        /\ Attempted(hist[i], "insert_stops") =>
               /\ i = Len(hist) => pc \in {"advance", "delete_stops", "returned"}
               /\ i < Len(hist) => /\ hist[i + 1].op = "delete_stops"
                                   /\ hist[i + 1].day = hist[i].day + 1
        /\ hist[i] = Op("insert_routes", hist[i].day, "IntegrityError") =>
               \E m \in DOMAIN all_html_messages :
                   all_html_messages[m] =
                       Msg("routes already imported", hist[i].day)
        /\ hist[i] = Op("insert_stops", hist[i].day, "IntegrityError") =>
               \E m \in DOMAIN all_html_messages :
                   all_html_messages[m] =
                       Msg("stops already imported", hist[i].day)

C8_Witness ==
    /\ pc = "returned"
    /\ \E i \in DOMAIN hist :
           /\ hist[i] = Op("insert_routes", SpringForwardDay, "IntegrityError")
           /\ hist[i + 1] = Op("insert_stops", SpringForwardDay, "none")
    /\ \E i \in DOMAIN hist :
           /\ hist[i] = Op("insert_routes", SpringForwardDay + 1, "none")
           /\ hist[i + 1] = Op("insert_stops", SpringForwardDay + 1, "IntegrityError")
    /\ \E i \in DOMAIN hist :
           hist[i] = Op("insert_stops", SpringForwardDay + 2, "none")
    /\ RoutesOfDay(route_stop, SpringForwardDay) # {}
    /\ RoutesOfDay(route, SpringForwardDay) = {}
    /\ RoutesOfDay(route_stop, SpringForwardDay + 2) # {}

----------------------------------------------------------------------------
(* The repository functions called in any order: SpecRepository draws a    *)
(* day, the rows set_up_data makes of a schedule for that day and a store, *)
(* and calls delete_routes_and_stops, insert_routes and insert_stops.      *)

RepositoryDays == {SpringForwardDay - 1, SpringForwardDay}

\* a response with a route that starts at 00:00 and one that starts at 23:59
MidnightResponse ==
    [routes |-> <<Route("Mia Green", <<Stop(0, 1, "07")>>),
                  Route("Bo Lee", <<Stop(1439, 2, "")>>)>>]

RepositorySchedules(d) ==
    {r \in ApiResponses \cup {MidnightResponse} : set_up_data(r, d).exc = "none"}

RepositoryStores(d) ==
    { NoStore,
      [route      |-> OldRoutes({d - 1, d}),
       route_stop |-> OldStops({d - 1, d})] }

\* a call and the store it leaves
Call(op, d, exc, st) ==
    [op |-> op, day |-> d, exc |-> exc,
     route |-> st.route, route_stop |-> st.route_stop]

InitRepository ==
    /\ pc = "repository"
    /\ day \in RepositoryDays
    /\ schedule \in RepositorySchedules(day)
    /\ all_routes = set_up_data(schedule, day).routes
    /\ all_stops = set_up_data(schedule, day).stops
    /\ store0 \in RepositoryStores(day)
    /\ route = store0.route
    /\ route_stop = store0.route_stop
    /\ start = day
    /\ x = 0
    /\ successfully_fetched_schedule = 0
    /\ all_html_messages = <<>>
    /\ hist = <<>>

\* delete_routes_and_stops(d) for the drawn day or the day after it
CallDelete ==
    /\ Len(hist) < MaxOps
    /\ \E d \in {day, day + 1} :
           LET st == delete_routes_and_stops(
                         [route |-> route, route_stop |-> route_stop], d) IN
           /\ route' = st.route
           /\ route_stop' = st.route_stop
           /\ hist' = Append(hist, Call("delete_routes_and_stops", d, "none", st))
    /\ UNCHANGED <<pc, start, day, x, schedule, all_routes, all_stops,
                   successfully_fetched_schedule, all_html_messages, store0>>

\* insert_routes(all_routes)
CallInsertRoutes ==
    /\ Len(hist) < MaxOps
    /\ LET res == insert_routes(route, all_routes) IN
       /\ route' = res.table
       /\ hist' = Append(hist, Call("insert_routes", day, res.exc,
                                    [route |-> res.table, route_stop |-> route_stop]))
    /\ UNCHANGED <<pc, start, day, x, schedule, all_routes, all_stops,
                   successfully_fetched_schedule, all_html_messages,
                   route_stop, store0>>

\* insert_stops(all_stops)
CallInsertStops ==
    /\ Len(hist) < MaxOps
    /\ LET res == insert_stops(route_stop, all_stops) IN
       /\ route_stop' = res.table
       /\ hist' = Append(hist, Call("insert_stops", day, res.exc,
                                    [route |-> route, route_stop |-> res.table]))
    /\ UNCHANGED <<pc, start, day, x, schedule, all_routes, all_stops,
                   successfully_fetched_schedule, all_html_messages,
                   route, store0>>

NextRepository ==
    \/ CallDelete
    \/ CallInsertRoutes
    \/ CallInsertStops

SpecRepository == InitRepository /\ [][NextRepository]_vars

----------------------------------------------------------------------------
(* Properties of the repository functions (stated for SpecRepository).     *)

StoreAfter(i) ==
    IF i = 0 THEN store0
    ELSE [route |-> hist[i].route, route_stop |-> hist[i].route_stop]

\* the calls n-4 .. n are: the deletion of the day, insert_routes and
\* insert_stops of its rows, and the same two inserts again
TwoInsertPasses(n) ==
    /\ n >= 5
    /\ hist[n - 4].op = "delete_routes_and_stops"
    /\ hist[n - 4].day = day
    /\ hist[n - 3].op = "insert_routes"
    /\ hist[n - 2].op = "insert_stops"
    /\ hist[n - 1].op = "insert_routes"
    /\ hist[n].op = "insert_stops"
    /\ all_routes # <<>>
    /\ all_stops # <<>>

\* C9: when the deletion of a day is followed by insert_routes and
\* insert_stops of a non-empty set of rows and then by the same two inserts
\* again, both inserts of the second pass raise IntegrityError and the store
\* is as the first pass left it.
C9_SecondInsertPassIsDuplicate ==
    \A n \in DOMAIN hist :
        TwoInsertPasses(n) =>
            /\ hist[n - 1].exc = "IntegrityError"
            /\ hist[n].exc = "IntegrityError"
            /\ StoreAfter(n) = StoreAfter(n - 2)

C9_Witness ==
    /\ TwoInsertPasses(Len(hist))
    /\ hist[Len(hist) - 3].exc = "none"
    /\ hist[Len(hist) - 2].exc = "none"
    /\ hist[Len(hist)].exc = "IntegrityError"
    /\ Range(all_routes) \subseteq route
    /\ Range(all_stops) \subseteq route_stop
    /\ store0 # NoStore

HasRowsOfDay(st, d) ==
    RoutesOfDay(st.route, d) # {} \/ RoutesOfDay(st.route_stop, d) # {}

\* C10: delete_routes_and_stops never raises for want of rows; called for a
\* day of which the store holds no row it leaves the store as it was; and
\* called twice in a row for the same day it leaves the store as the first
\* call left it.
C10_DeleteIsIdempotent ==
    \A i \in DOMAIN hist :
        hist[i].op = "delete_routes_and_stops" =>
            /\ hist[i].exc = "none"
            /\ ~ HasRowsOfDay(StoreAfter(i - 1), hist[i].day)
                   => StoreAfter(i) = StoreAfter(i - 1)
            /\ (i > 1 /\ hist[i - 1].op = "delete_routes_and_stops"
                      /\ hist[i - 1].day = hist[i].day)
                   => StoreAfter(i) = StoreAfter(i - 1)

C10_Witness ==
    /\ Len(hist) = 3
    /\ hist[1].op = "delete_routes_and_stops"
    /\ hist[1].day = day + 1
    /\ ~ HasRowsOfDay(store0, day + 1)
    /\ store0 # NoStore
    /\ hist[2].op = "delete_routes_and_stops"
    /\ hist[2].day = day
    /\ StoreAfter(2) # StoreAfter(1)
    /\ hist[3].op = "delete_routes_and_stops"
    /\ hist[3].day = day
    /\ StoreAfter(3) # NoStore

\* the instant ts lies on the calendar date d of US/Pacific: between the
\* midnight that starts d and the midnight that starts the next date
FallsOn(ts, d) == set_to_pacific(d, 0) <= ts /\ ts < set_to_pacific(d + 1, 0)

\* C14: delete_routes_and_stops(d) leaves in route and in route_stop exactly
\* the rows whose route_date_time does not fall on the calendar date d: every
\* row of d is removed, whatever its time of day, and every row of another
\* date stays as it was.
C14_DeleteRemovesExactlyTheDay ==
    \A i \in DOMAIN hist :
        hist[i].op = "delete_routes_and_stops" =>
            /\ StoreAfter(i).route =
                   {r \in StoreAfter(i - 1).route :
                        ~ FallsOn(r.route_date_time, hist[i].day)}
            /\ StoreAfter(i).route_stop =
                   {s \in StoreAfter(i - 1).route_stop :
                        ~ FallsOn(s.route_date_time, hist[i].day)}

\* rows stamped 00:00, 08:00 and 23:59 of the day are removed and the rows
\* of the day before are left
C14_Witness ==
    /\ Len(hist) >= 1
    /\ hist[Len(hist)].op = "delete_routes_and_stops"
    /\ hist[Len(hist)].day = day
    /\ LET before == StoreAfter(Len(hist) - 1) IN
       /\ \A t \in {0, 480, 1439} :
              /\ \E r \in before.route : r.route_date_time = set_to_pacific(day, t)
              /\ \E s \in before.route_stop : s.route_date_time = set_to_pacific(day, t)
    /\ route = OldRoutes({day - 1})
    /\ route_stop = OldStops({day - 1})

\* the call with rows on table before gave table after: nothing done for no
\* rows; else all rows added, or IntegrityError and nothing added
InsertAllOrNothing(exc, rows, before, after) ==
    IF rows = <<>>
    THEN exc = "none" /\ after = before
    ELSE \/ exc = "none" /\ after = before \cup Range(rows)
         \/ exc = "IntegrityError" /\ after = before

\* C16: insert_routes and insert_stops called with no rows do nothing and do
\* not raise; called with rows they store all of them in their table, or
\* raise IntegrityError and store none; the other table is left alone.
C16_InsertIsAllOrNothing ==
    \A i \in DOMAIN hist :
        /\ hist[i].op = "insert_routes" =>
               /\ InsertAllOrNothing(hist[i].exc, all_routes,
                                     StoreAfter(i - 1).route, StoreAfter(i).route)
               /\ StoreAfter(i).route_stop = StoreAfter(i - 1).route_stop
        /\ hist[i].op = "insert_stops" =>
               /\ InsertAllOrNothing(hist[i].exc, all_stops,
                                     StoreAfter(i - 1).route_stop,
                                     StoreAfter(i).route_stop)
               /\ StoreAfter(i).route = StoreAfter(i - 1).route

\* the routes were stored as a whole; the stops, two of which share their
\* stop number, were refused as a whole
C16_Witness ==
    /\ Len(hist) >= 2
    /\ Len(all_stops) >= 2
    /\ hist[Len(hist) - 1] =
           Call("insert_routes", day, "none",
                [route |-> store0.route \cup Range(all_routes),
                 route_stop |-> store0.route_stop])
    /\ all_routes # <<>>
    /\ hist[Len(hist)].op = "insert_stops"
    /\ hist[Len(hist)].exc = "IntegrityError"
    /\ Range(all_stops) \cap route_stop = {}
    /\ route_stop = store0.route_stop

----------------------------------------------------------------------------
(* Further properties of run_each_day (stated for Spec).                   *)

\* the exceptions run_each_day handles: the fetch error of fetch_routes and
\* the duplicate error of the two inserts
Handled(o) ==
    \/ o.op = "fetch_routes" /\ o.exc = "OptimorouteGetRoutesException"
    \/ o.op \in {"insert_routes", "insert_stops"} /\ o.exc = "IntegrityError"

Uncaught(o) == o.exc # "none" /\ ~ Handled(o)

\* C12: an operation that raises anything but the fetch error (from the
\* fetch) or the duplicate error (from an insert) is the last operation of
\* the job: the job is then terminated by the exception, nothing is
\* attempted after it and run_each_day does not return its log.
C12_OtherErrorsTerminateJob ==
    /\ \A i \in DOMAIN hist :
           Uncaught(hist[i]) => (i = Len(hist) /\ pc = "crashed")
    /\ pc = "crashed" => (hist # <<>> /\ Uncaught(hist[Len(hist)]))

\* delete_routes_and_stops failed on a later day of the run
C12_Witness ==
    /\ pc = "crashed"
    /\ hist[Len(hist)].op \in {"delete_stops", "delete_routes"}
    /\ hist[Len(hist)].day > start
    /\ x < DaysToRun - 1

\* operation o ended without an exception that leaves run_each_day
Finished(o) == o.exc = "none" \/ Handled(o)

\* operation cur may directly follow operation prev
Follows(prev, cur) ==
    IF cur.op = "delete_stops"
    THEN /\ cur.day = prev.day + 1
         /\ \/ prev.op = "insert_stops" /\ Finished(prev)
            \/ prev.op = "fetch_routes" /\ prev.exc = "OptimorouteGetRoutesException"
    ELSE /\ cur.day = prev.day
         /\ \/ cur.op = "delete_routes" /\ prev.op = "delete_stops" /\ prev.exc = "none"
            \/ cur.op = "fetch_routes" /\ prev.op = "delete_routes" /\ prev.exc = "none"
            \/ cur.op = "insert_routes" /\ prev.op = "fetch_routes" /\ prev.exc = "none"
            \/ cur.op = "insert_stops" /\ prev.op = "insert_routes" /\ Finished(prev)

\* C13: the operations of a run come in a fixed order: each day starts with
\* its delete (stops, then routes), then its fetch, then, only after the
\* fetch succeeded, insert_routes and after it insert_stops; the first
\* operation of a day comes only after the last operation of the day before
\* has finished.
C13_FixedOrderWithinDay ==
    \A i \in DOMAIN hist :
        IF i = 1 THEN hist[1].op = "delete_stops" /\ hist[1].day = start
        ELSE Follows(hist[i - 1], hist[i])

\* a day with both inserts, one of them refused as duplicate, is followed by
\* the delete of the next day
C13_Witness ==
    /\ Len(hist) >= 6
    /\ hist[4].op = "insert_routes"
    /\ hist[5].op = "insert_stops" /\ hist[5].exc = "IntegrityError"
    /\ hist[6].op = "delete_stops" /\ hist[6].day = start + 1

RowsOn(tbl, d) == {s \in tbl : FallsOn(s.route_date_time, d)}

\* one step within delete_routes_and_stops(day): the statement on route_stop
\* leaves route alone, the statement on route leaves route_stop alone and
\* finds no stop of the day, and when it fails the routes stay as they were
DeleteStepOrdered ==
    /\ pc = "delete_stops" =>
           /\ route' = route
           /\ pc' = "delete_routes" => RowsOn(route_stop', day) = {}
    /\ pc = "delete_routes" =>
           /\ route_stop' = route_stop
           /\ RowsOn(route_stop, day) = {}
           /\ pc' = "crashed" => route' = route

\* C15: delete_routes_and_stops deletes the stops of the day before its
\* routes: no route is removed while a stop of the day is still stored, and
\* when the call fails between or in the second of its two statements the
\* store holds the routes of the day as before and no stop of the day.
C15_StopsDeletedBeforeRoutes == [][DeleteStepOrdered]_vars

\* the second statement failed: the old route of the day is stored without
\* its stop
C15_Witness ==
    /\ pc = "crashed"
    /\ hist[Len(hist)] = Op("delete_routes", day, "OperationalError")
    /\ OldRoutes({day}) \subseteq route
    /\ OldRoutes({day}) # {}
    /\ RowsOn(route_stop, day) = {}

\* the segments a day d can contribute to the log: the deletion message, one
\* fetch message, after a successful fetch one routes message and one stops
\* message, and the separator
Segments(d) ==
    {<<Msg("deleted", d), Msg("fetch failed", d), [kind |-> "<br>"]>>}
    \cup {<<Msg("deleted", d), Msg("fetched", d), Msg(r, d), Msg(s, d),
            [kind |-> "<br>"]>> :
              r \in {"routes inserted", "routes already imported"},
              s \in {"stops inserted", "stops already imported"}}

RECURSIVE SegmentsFrom(_, _, _)
\* log consists of one segment for each of the n days from d on, in order
SegmentsFrom(log, d, n) ==
    IF n = 0 THEN log = <<>>
    ELSE \E seg \in Segments(d) :
             /\ Len(seg) <= Len(log)
             /\ SubSeq(log, 1, Len(seg)) = seg
             /\ SegmentsFrom(SubSeq(log, Len(seg) + 1, Len(log)), d + 1, n - 1)

LogGrows ==
    /\ Len(all_html_messages') >= Len(all_html_messages)
    /\ SubSeq(all_html_messages', 1, Len(all_html_messages)) = all_html_messages

\* C17: no step removes or changes an entry of the log; and the log
\* run_each_day returns consists of seven segments, one for each day in
\* order, each made of the deletion message, one fetch message, after a
\* successful fetch (and only then) one routes message and one stops message,
\* and one separator.
C17_LogIsSevenSegments ==
    /\ [](pc = "returned" => SegmentsFrom(all_html_messages, start, 7))
    /\ [][LogGrows]_vars

\* a returned log with a day whose fetch failed and a day whose routes were
\* refused and whose stops were stored
C17_Witness ==
    /\ pc = "returned"
    /\ \E i \in DOMAIN all_html_messages :
           all_html_messages[i].kind = "fetch failed"
    /\ \E i \in DOMAIN all_html_messages :
           /\ all_html_messages[i].kind = "routes already imported"
           /\ all_html_messages[i + 1].kind = "stops inserted"

\* C18: once the fetch of a day has failed with
\* OptimorouteGetRoutesException, the store holds no route and no stop of
\* that day, at the end of the day's iteration and for the rest of the run:
\* the rows the store held for the day were deleted and are not put back.
C18_FailedFetchLeavesDayEmpty ==
    \A i \in DOMAIN hist :
        FetchFailed(hist[i]) =>
            /\ RowsOn(route, hist[i].day) = {}
            /\ RowsOn(route_stop, hist[i].day) = {}

\* the iteration of a day of which the store held a route and a stop ends
\* after a failed fetch
C18_Witness ==
    /\ pc = "advance"
    /\ FetchFailed(hist[Len(hist)])
    /\ hist[Len(hist)].day = day
    /\ RowsOn(store0.route, day) # {}
    /\ RowsOn(store0.route_stop, day) # {}
    /\ RowsOn(route, day) = {}
    /\ RowsOn(route_stop, day) = {}

----------------------------------------------------------------------------
(* fetch_routes as a function of the decoded response: SpecFetch draws a   *)
(* response and applies lines 53-59 to it.                                 *)

FetchDays == {SpringForwardDay}

\* the responses drawn: an error payload with a message, a payload with
\* neither routes nor message, and the schedules of SpecTransform, bare and
\* with a message field beside the routes
FetchPayloads ==
    {ErrorPayload, [code |-> 500]}
    \cup Schedules
    \cup {[routes |-> sched.routes, message |-> "Partial result"] :
              sched \in Schedules}

\* what a call of fetch_routes ended with
Raised(d, got) == [op |-> "fetch_routes", day |-> d, exc |-> got.exc, msg |-> got.msg]

InitFetch ==
    /\ pc = "fetch_routes"
    /\ day \in FetchDays
    /\ schedule \in FetchPayloads
    /\ start = day
    /\ x = 0
    /\ all_routes = <<>>
    /\ all_stops = <<>>
    /\ successfully_fetched_schedule = 0
    /\ all_html_messages = <<>>
    /\ route = {}
    /\ route_stop = {}
    /\ store0 = NoStore
    /\ hist = <<>>

\* lines 53-59 on the response schedule
FetchCall ==
    /\ pc = "fetch_routes"
    /\ LET got == fetch_routes(schedule, day) IN
       /\ pc' = IF got.exc = "none" THEN "returned" ELSE got.exc
       /\ all_routes' = got.routes
       /\ all_stops' = got.stops
       /\ hist' = <<Raised(day, got)>>
    /\ UNCHANGED <<start, day, x, schedule, successfully_fetched_schedule,
                   all_html_messages, route, route_stop, store0>>

NextFetch == FetchCall

SpecFetch == InitFetch /\ [][NextFetch]_vars

----------------------------------------------------------------------------
(* Properties of fetch_routes (stated for SpecFetch).                      *)

\* route i of the response lacks a key, in itself or in one of its stops
RouteLacksKey(sched, i) ==
    \/ ~ ({"stops", "duration", "driverName"} \subseteq DOMAIN sched.routes[i])
    \/ \E j \in DOMAIN sched.routes[i].stops :
           ~ ({"scheduledAt", "stopNumber", "locationNo"}
                  \subseteq DOMAIN sched.routes[i].stops[j])

\* route i of the response lists no stops
RouteHasNoStops(sched, i) ==
    "stops" \in DOMAIN sched.routes[i] /\ sched.routes[i].stops = <<>>

\* the first defect met in the response, read in the order of its routes,
\* is a missing key
MissingKeyMetFirst(sched) ==
    \/ "routes" \notin DOMAIN sched
    \/ \E i \in DOMAIN sched.routes :
           /\ RouteLacksKey(sched, i)
           /\ \A k \in 1..i : ~ RouteHasNoStops(sched, k)

\* fetch_routes raised OptimorouteGetRoutesException with the message field
\* of the response, when there is one, in its message, and returned no rows
FetchErrorRaised ==
    /\ pc = "OptimorouteGetRoutesException"
    /\ hist[1].exc = "OptimorouteGetRoutesException"
    /\ "message" \in DOMAIN schedule => hist[1].msg = PyStr(schedule.message)
    /\ all_routes = <<>>
    /\ all_stops = <<>>

----------------------------------------------------------------------------
(* A route without stops, in run_each_day (stated for Spec).               *)

\* the first defect met in the response, read in the order of its routes,
\* is a route that lists no stops
EmptyStopsMetFirst(sched) ==
    /\ "routes" \in DOMAIN sched
    /\ \E i \in DOMAIN sched.routes :
           /\ RouteHasNoStops(sched, i)
           /\ \A k \in 1..(i - 1) : ~ RouteLacksKey(sched, k)

====
